---- MODULE Spec2Model ----
(***************************************************************************)
(* Model of the Idasen desk controller (src/main.py): configuration        *)
(* layering and validation, device resolution, the connection lifecycle    *)
(* of main()/run(), and the notification-driven movement controller        *)
(* move_to() with its subscription loop, its spawned write tasks and its   *)
(* movement timeout.                                                       *)
(*                                                                         *)
(* The asyncio event loop is modelled by its observable scheduling: the    *)
(* main coroutine (pc), the subscribe task (subPc), the initial write task *)
(* of the gather (wPc) and the FIFO queue of tasks spawned by the          *)
(* notification handler with asyncio.create_task (tasks).  A BLE call on a *)
(* live link succeeds; on a dropped link it raises BleakError.             *)
(***************************************************************************)
EXTENDS Integers, Sequences, FiniteSets, TLC

VARIABLES platform, file, cli, config, pc, exitCode, handlers, cache, desk,
          client, linkUp, cbSet, stop_flag, stopBy, count, subscribed, subPc,
          wPc, tasks, cmdLog, refLog, target, initial_height, direction,
          lastHeight, notifCount, nOut, nIn, mvResult, startNotifyCalls,
          stopNotifyCalls, disconnectCalls, bleUsed, sigInLoop, dropInMove,
          stopResult, decided

vars == <<platform, file, cli, config, pc, exitCode, handlers, cache, desk,
          client, linkUp, cbSet, stop_flag, stopBy, count, subscribed, subPc,
          wPc, tasks, cmdLog, refLog, target, initial_height, direction,
          lastHeight, notifCount, nOut, nIn, mvResult, startNotifyCalls,
          stopNotifyCalls, disconnectCalls, bleUsed, sigInLoop, dropInMove,
          stopResult, decided>>

(***************************************************************************)
(* Bounds of the model.                                                    *)
(***************************************************************************)
\* notifications delivered in one run
MaxNotif == 6

(***************************************************************************)
(* Program constants.                                                      *)
(***************************************************************************)
BASE_HEIGHT == 620
MAX_HEIGHT == 1270
COMMAND_UP == 71
COMMAND_DOWN == 70
COMMAND_STOP == 255
COMMAND_REFERENCE_INPUT_STOP == 32769
\* the notification on which the directional command is resent
RESEND_COUNT == 6
\* a raw height is an unsigned 16-bit value ("<Hh")
MaxRaw == 65535

\* Python's None for the settings whose value the code only tests for
\* truthiness before use: mac_address (None and "" are both falsy) and
\* move_to (None and 0 are both falsy).
NoMac == ""
NoMoveTo == 0
\* target = None in run(); a raw target is a multiple of 10
NoTarget == -1
\* no height read yet; a raw height is never negative
NoHeight == -1

IS_LINUX == platform = "posix"
IS_WINDOWS == platform = "nt"

(***************************************************************************)
(* Helper functions.                                                       *)
(***************************************************************************)
mmToRaw(mm) == (mm - BASE_HEIGHT) * 10

Abs(x) == IF x < 0 THEN -x ELSE x

\* an empty dict
None == [k \in {} |-> 0]

\* dict.update
Update(d, u) ==
    [k \in (DOMAIN d \cup DOMAIN u) |-> IF k \in DOMAIN u THEN u[k] ELSE d[k]]

(***************************************************************************)
(* Configuration: defaults, config.yaml, command line.                     *)
(***************************************************************************)
DefaultConfig ==
    [mac_address |-> NoMac,
     stand_height |-> BASE_HEIGHT + 420,
     sit_height |-> BASE_HEIGHT + 63,
     height_tolerance |-> 2,
     adapter_name |-> "hci0",
     scan_timeout |-> 5,
     connection_timeout |-> 10,
     movement_timeout |-> 30,
     sit |-> FALSE,
     stand |-> FALSE,
     monitor |-> FALSE,
     move_to |-> NoMoveTo]

\* The dest under which the parser stores the value of each option; every
\* add_argument names its dest after its setting, except --scan-timeout.
Dest(opt) == IF opt = "scan_timeout" THEN "scan" ELSE opt

\* vars(parser.parse_args()) without the None entries: the options given on
\* the command line under their dest, and False for every store_true flag
\* that was not given.
ParseArgs(given) ==
    LET flags == [sit |-> FALSE, stand |-> FALSE, monitor |-> FALSE,
                  scan_adapter |-> FALSE]
        byDest == [d \in {Dest(o) : o \in DOMAIN given} |->
                     given[CHOOSE o \in DOMAIN given : Dest(o) = d]]
    IN  Update(flags, byDest)

\* config after config.update(config_file) and config.update(args)
LayeredConfig(f, given) == Update(Update(DefaultConfig, f), ParseArgs(given))

\* the checks without the one on the stand height
ConfigErrorNoMax(c) ==
    IF c.mac_address = NoMac THEN "Mac address must be provided"
    ELSE IF c.sit_height >= c.stand_height
         THEN "Sit height must be less than stand height"
    ELSE IF c.sit_height < BASE_HEIGHT THEN "Sit height must be greater than"
    ELSE ""

\* The four parser.error checks, in order; "" when the configuration passes.
ConfigError(c) ==
    IF c.mac_address = NoMac THEN "Mac address must be provided"
    ELSE IF c.sit_height >= c.stand_height
         THEN "Sit height must be less than stand height"
    ELSE IF c.sit_height < BASE_HEIGHT THEN "Sit height must be greater than"
    ELSE IF c.stand_height > MAX_HEIGHT THEN "Stand height must be less than"
    ELSE ""

\* The derived raw values and the Windows adapter name.
DerivedConfig(c) ==
    LET raw == [stand_height_raw |-> mmToRaw(c.stand_height),
                sit_height_raw |-> mmToRaw(c.sit_height),
                height_tolerance_raw |-> 10 * c.height_tolerance]
        mv == IF c.move_to # NoMoveTo
              THEN [move_to_raw |-> mmToRaw(c.move_to)] ELSE None
        ad == IF IS_WINDOWS THEN [adapter_name |-> "default adapter"]
              ELSE None
    IN  Update(Update(Update(c, raw), mv), ad)

(***************************************************************************)
(* Inputs of a run: platform, config.yaml, command line, desk.pickle.      *)
(***************************************************************************)
Platforms == {"posix", "nt"}

ConfigFiles ==
    {None,
     [mac_address |-> "AA"],
     [mac_address |-> "AA", stand_height |-> 1270, sit_height |-> 620,
      height_tolerance |-> 1, adapter_name |-> "hci1", scan_timeout |-> 7,
      connection_timeout |-> 12, movement_timeout |-> 40]}

CliSettings ==
    {None,
     [mac_address |-> "CC", stand_height |-> 1200, sit_height |-> 700,
      height_tolerance |-> 3, adapter_name |-> "hci2", scan_timeout |-> 9,
      connection_timeout |-> 15, movement_timeout |-> 50],
     [sit_height |-> 1100],
     [sit_height |-> 610],
     [stand_height |-> 1280]}

\* the mutually exclusive operation selectors
Operations ==
    {None, [sit |-> TRUE], [stand |-> TRUE], [monitor |-> TRUE],
     [move_to |-> 1300], [scan_adapter |-> TRUE]}

CommandLines == {Update(s, o) : s \in CliSettings, o \in Operations}

\* desk.pickle: absent, unreadable, or the address of the pickled device
CacheFiles == {"absent", "corrupt", "AA", "CC", "ZZ"}

\* the addresses a scan can discover
Addresses == {"AA", "CC", "ZZ"}

\* The heights the desk reports around a target: just outside and on the
\* edge of the tolerance band, on both sides.
Heights(t, tol) ==
    {h \in {t - tol - 1, t - tol, t + tol, t + tol + 1} : h >= 0 /\ h <= MaxRaw}

\* The runs explored: every layering of the settings without an operation,
\* and every operation on the configuration of a plain config.yaml.
Runs ==
    {r \in [platform : Platforms, file : ConfigFiles, cli : CommandLines,
            cache : CacheFiles] :
        /\ r.platform = "nt" => r.cache = "absent"
        /\ \/ r.cli \in CliSettings
           \/ /\ r.cli \in Operations
              /\ r.file = [mac_address |-> "AA"]
              /\ r.cache \in {"absent", "AA"}}

(***************************************************************************)
(* Initial state: the interpreter is about to execute the module.          *)
(***************************************************************************)
Init ==
    /\ \E r \in Runs :
          /\ platform = r.platform
          /\ file = r.file
          /\ cli = r.cli
          /\ cache = r.cache
    /\ config = DefaultConfig
    /\ pc = "load"
    /\ exitCode = -1
    /\ handlers = FALSE
    /\ desk = "none"
    /\ client = FALSE
    /\ linkUp = FALSE
    /\ cbSet = FALSE
    /\ stop_flag = FALSE
    /\ stopBy = "none"
    /\ count = 0
    /\ subscribed = FALSE
    /\ subPc = "none"
    /\ wPc = "none"
    /\ tasks = <<>>
    /\ cmdLog = <<>>
    /\ refLog = <<>>
    /\ target = NoTarget
    /\ initial_height = NoHeight
    /\ direction = "none"
    /\ lastHeight = NoHeight
    /\ notifCount = 0
    /\ nOut = 0
    /\ nIn = 0
    /\ mvResult = "none"
    /\ startNotifyCalls = 0
    /\ stopNotifyCalls = 0
    /\ disconnectCalls = 0
    /\ bleUsed = FALSE
    /\ sigInLoop = FALSE
    /\ dropInMove = FALSE
    /\ stopResult = "none"
    /\ decided = <<>>

inVars == <<platform, file, cli>>
resVars == <<cache, desk>>
connVars == <<client, linkUp, cbSet>>
stopVars == <<stop_flag, stopBy>>
subVars == <<subscribed, subPc, startNotifyCalls, stopNotifyCalls>>
mvVars == <<target, initial_height, direction, mvResult>>
logVars == <<cmdLog, refLog, stopResult>>
notifVars == <<count, lastHeight, notifCount, nOut, nIn, decided>>
envVars == <<sigInLoop, dropInMove>>

\* the event loop is inside a run_until_complete: callbacks and tasks run
LoopRunning ==
    pc \in {"run", "scan", "connect", "read0", "mv_read", "mv_wait",
            "mv_timeout", "monitor", "after_move", "final_read",
            "disconnecting"}

\* notifications and signals dispatched before the children have started
FirstStepSkipped == TRUE

\* the first loop iteration of the gather has run both of its children
FirstStepDone == subPc # "start" /\ wPc # "ready"

\* The ready queue of the loop is FIFO: a task spawned by a callback runs
\* its first step before the next event of the transport is dispatched.
\* Only the second write of stop(), which waits for the first one to
\* complete, can still be pending then.
SpawnedTasksStarted == \A i \in 1..Len(tasks) : tasks[i] = "stop_ref"

(***************************************************************************)
(* ask_to_stop(): the flag, and who set it first.                          *)
(***************************************************************************)
\* ask_to_stop without the global declaration: the flag stays unset
ask_to_stop_local(by) ==
    /\ stop_flag' = stop_flag
    /\ stopBy' = stopBy

ask_to_stop(by) ==
    /\ stop_flag' = TRUE
    /\ stopBy' = IF stop_flag THEN stopBy ELSE by

(***************************************************************************)
(* Module level: configuration, lines 51-132.                              *)
(***************************************************************************)
LoadConfig ==
    /\ pc = "load"
    /\ LET c == LayeredConfig(file, cli)
       IN  IF ConfigError(c) # ""
           THEN /\ config' = c
                /\ pc' = "exit"
                /\ exitCode' = 2
           ELSE /\ config' = DerivedConfig(c)
                /\ pc' = "main"
                /\ exitCode' = exitCode
    /\ UNCHANGED <<inVars, resVars, connVars, stopVars, subVars, mvVars,
                   logVars, notifVars, envVars, handlers, wPc, tasks,
                   disconnectCalls, bleUsed>>

(***************************************************************************)
(* main(), lines 344-352: signal handlers, then run().                     *)
(***************************************************************************)
MainStart ==
    /\ pc = "main"
    /\ handlers' = IS_LINUX
    /\ pc' = "run"
    /\ UNCHANGED <<inVars, config, resVars, connVars, stopVars, subVars,
                   mvVars, logVars, notifVars, envVars, exitCode, wPc, tasks,
                   disconnectCalls, bleUsed>>

(***************************************************************************)
(* run(), lines 285-301: adapter scan, device resolution, connect.         *)
(***************************************************************************)
ScanAdapter ==
    /\ pc = "run"
    /\ config.scan_adapter
    /\ bleUsed' = TRUE
    /\ pc' = "exit"
    /\ exitCode' = 0
    /\ UNCHANGED <<inVars, config, resVars, connVars, stopVars, subVars,
                   mvVars, logVars, notifVars, envVars, handlers, wPc, tasks,
                   disconnectCalls>>

\* unpickle_desk without the comparison of the address
unpickle_desk_unchecked ==
    IF ~IS_WINDOWS /\ cache \notin {"absent", "corrupt"}
    THEN cache ELSE "none"

\* unpickle_desk(), lines 234-244
unpickle_desk ==
    IF ~IS_WINDOWS /\ cache \notin {"absent", "corrupt"}
       /\ cache = config.mac_address
    THEN cache ELSE "none"

Unpickle ==
    /\ pc = "run"
    /\ ~config.scan_adapter
    /\ desk' = unpickle_desk
    /\ pc' = IF desk' # "none" THEN "connect" ELSE "scan"
    /\ UNCHANGED <<inVars, config, cache, connVars, stopVars, subVars,
                   mvVars, logVars, notifVars, envVars, exitCode, handlers,
                   wPc, tasks, disconnectCalls, bleUsed>>

\* scan(mac_address): the discovered device with that address, if any
scan(devices, mac_address) ==
    IF mac_address \in devices THEN mac_address ELSE "none"

Scan ==
    /\ pc = "scan"
    /\ \E devices \in SUBSET Addresses :
          /\ desk' = scan(devices, config.mac_address)
          /\ IF desk' = "none"
             THEN pc' = "exit" /\ exitCode' = 1
             ELSE pc' = "connect" /\ exitCode' = exitCode
    /\ bleUsed' = TRUE
    /\ UNCHANGED <<inVars, config, cache, connVars, stopVars, subVars,
                   mvVars, logVars, notifVars, envVars, handlers, wPc, tasks,
                   disconnectCalls>>

\* pickle_desk(desk)
pickle_desk(d) == IF ~IS_WINDOWS THEN d ELSE cache

\* connect succeeds, the desk is pickled, the disconnect callback is set
ConnectOk ==
    /\ pc = "connect"
    /\ client' = TRUE
    /\ linkUp' = TRUE
    /\ cache' = pickle_desk(desk)
    /\ cbSet' = TRUE
    /\ bleUsed' = TRUE
    /\ pc' = "read0"
    /\ UNCHANGED <<inVars, config, desk, stopVars, subVars, mvVars, logVars,
                   notifVars, envVars, exitCode, handlers, wPc, tasks,
                   disconnectCalls>>

\* connect succeeds, writing desk.pickle raises: except Exception in run()
ConnectOkPickleFail ==
    /\ pc = "connect"
    /\ ~IS_WINDOWS
    /\ client' = TRUE
    /\ linkUp' = TRUE
    /\ cache' = "corrupt"
    /\ bleUsed' = TRUE
    /\ pc' = "run_end"
    /\ UNCHANGED <<inVars, config, desk, cbSet, stopVars, subVars, mvVars,
                   logVars, notifVars, envVars, exitCode, handlers, wPc,
                   tasks, disconnectCalls>>

\* connect raises BleakError: os._exit(1)
ConnectFail ==
    /\ pc = "connect"
    /\ bleUsed' = TRUE
    /\ pc' = "exit"
    /\ exitCode' = 1
    /\ UNCHANGED <<inVars, config, resVars, connVars, stopVars, subVars,
                   mvVars, logVars, notifVars, envVars, handlers, wPc, tasks,
                   disconnectCalls>>

(***************************************************************************)
(* run(), lines 314-331: the first read, then the selected operation.      *)
(***************************************************************************)
\* the raw target of the selected operation (the elif chain of run)
SelectedTarget(c) ==
    IF c.monitor THEN NoTarget
    ELSE IF c.sit THEN c.sit_height_raw
    ELSE IF c.stand THEN c.stand_height_raw
    ELSE IF c.move_to # NoMoveTo THEN c.move_to_raw
    ELSE NoTarget

Read0 ==
    /\ pc = "read0"
    /\ IF ~linkUp
       THEN /\ pc' = "run_end"
            /\ UNCHANGED <<target, subPc>>
       ELSE /\ target' = SelectedTarget(config)
            /\ IF config.monitor
               THEN pc' = "monitor" /\ subPc' = "start"
               ELSE IF config.sit \/ config.stand \/ config.move_to # NoMoveTo
                    THEN pc' = "mv_read" /\ subPc' = subPc
                    ELSE pc' = "run_end" /\ subPc' = subPc
    /\ UNCHANGED <<inVars, config, resVars, connVars, stopVars, subscribed,
                   startNotifyCalls, stopNotifyCalls, initial_height,
                   direction, mvResult, logVars, notifVars, envVars, exitCode,
                   handlers, wPc, tasks, disconnectCalls, bleUsed>>

(***************************************************************************)
(* move_to(client, target), lines 179-232.                                 *)
(***************************************************************************)
\* the comparison of line 143 made strict
has_reached_target_strict(height, tgt) ==
    Abs(height - tgt) < config.height_tolerance_raw

has_reached_target(height, tgt) ==
    Abs(height - tgt) <= config.height_tolerance_raw

\* the comparison of line 185 reversed
DirectionFlipped(tgt, initial) == IF tgt < initial THEN "UP" ELSE "DOWN"

Direction(tgt, initial) == IF tgt > initial THEN "UP" ELSE "DOWN"

\* the command of move_up / move_down (lines 145-149)
DirectionCommand(dir) == IF dir = "UP" THEN COMMAND_UP ELSE COMMAND_DOWN

\* the one-shot read, the direction, and the gather of subscribe and the
\* first directional write if the target is not reached yet
MoveRead ==
    /\ pc = "mv_read"
    /\ IF ~linkUp
       THEN /\ pc' = "run_end"
            /\ mvResult' = "raised"
            /\ UNCHANGED <<initial_height, direction, count, subPc, wPc,
                           decided>>
       ELSE \E h \in Heights(target, config.height_tolerance_raw) :
              /\ initial_height' = h
              /\ direction' = Direction(target, h)
              /\ count' = 0
              /\ IF ~has_reached_target(h, target)
                 THEN /\ subPc' = "start"
                      /\ wPc' = "ready"
                      /\ pc' = "mv_wait"
                      /\ mvResult' = mvResult
                      /\ decided' = <<DirectionCommand(direction')>>
                 ELSE /\ pc' = "after_move"
                      /\ mvResult' = "noop"
                      /\ UNCHANGED <<subPc, wPc, decided>>
    /\ UNCHANGED <<inVars, config, resVars, connVars, stopVars, subscribed,
                   startNotifyCalls, stopNotifyCalls, target, logVars,
                   lastHeight, notifCount, nOut, nIn, envVars, exitCode,
                   handlers, tasks, disconnectCalls, bleUsed>>

(***************************************************************************)
(* subscribe(client, uuid, callback), lines 170-177.                       *)
(***************************************************************************)
\* await client.start_notify(uuid, callback)
SubStart ==
    /\ subPc = "start"
    /\ LoopRunning
    /\ startNotifyCalls' = startNotifyCalls + 1
    /\ IF linkUp
       THEN subscribed' = TRUE /\ subPc' = "loop"
       ELSE subscribed' = subscribed /\ subPc' = "failed"
    /\ UNCHANGED <<inVars, config, resVars, connVars, stopVars,
                   stopNotifyCalls, mvVars, logVars, notifVars, envVars, pc,
                   exitCode, handlers, wPc, tasks, disconnectCalls, bleUsed>>

\* a subscribe loop that ends without the stop flag
SubPollUnconditional ==
    /\ subPc = "loop"
    /\ LoopRunning
    /\ stopNotifyCalls' = stopNotifyCalls + 1
    /\ IF linkUp
       THEN subscribed' = FALSE /\ subPc' = "done"
       ELSE subscribed' = subscribed /\ subPc' = "failed"
    /\ UNCHANGED <<inVars, config, resVars, connVars, stopVars,
                   startNotifyCalls, mvVars, logVars, notifVars, envVars, pc,
                   exitCode, handlers, wPc, tasks, disconnectCalls, bleUsed>>

\* the poll that finds asked_to_stop() true: await client.stop_notify(uuid)
SubPoll ==
    /\ subPc = "loop"
    /\ LoopRunning
    /\ stop_flag
    /\ stopNotifyCalls' = stopNotifyCalls + 1
    /\ IF linkUp
       THEN subscribed' = FALSE /\ subPc' = "done"
       ELSE subscribed' = subscribed /\ subPc' = "failed"
    /\ UNCHANGED <<inVars, config, resVars, connVars, stopVars,
                   startNotifyCalls, mvVars, logVars, notifVars, envVars, pc,
                   exitCode, handlers, wPc, tasks, disconnectCalls, bleUsed>>

(***************************************************************************)
(* move_up / move_down / stop, lines 145-157.                              *)
(***************************************************************************)
\* the first directional write, second child of the gather (lines 224-227)
InitialWrite ==
    /\ wPc = "ready"
    /\ subPc # "start"
    /\ LoopRunning
    /\ IF linkUp
       THEN /\ cmdLog' = Append(cmdLog, DirectionCommand(direction))
            /\ wPc' = "done"
       ELSE /\ cmdLog' = cmdLog
            /\ wPc' = "failed"
    /\ UNCHANGED <<inVars, config, resVars, connVars, stopVars, subVars,
                   mvVars, refLog, stopResult, notifVars, envVars, pc,
                   exitCode, handlers, tasks, disconnectCalls, bleUsed>>

\* the command code a spawned write task sends
TaskCommand(t) ==
    CASE t = "up" -> COMMAND_UP
      [] t = "down" -> COMMAND_DOWN
      [] t = "stop" -> COMMAND_STOP

\* how the stop(client) that runs task t has ended, if it has: returned
\* after its last write, or raised the error of the write that failed
StopOutcome(t) ==
    IF t = "stop"
    THEN IF ~linkUp THEN "raised_command"
         ELSE IF IS_LINUX THEN stopResult ELSE "returned"
    ELSE IF t = "stop_ref"
         THEN IF linkUp THEN "returned" ELSE "raised_reference"
    ELSE stopResult

\* the next task spawned by the notification handler runs up to its next
\* await: one write; stop(client) continues with its second write on Linux
RunTask ==
    /\ tasks # <<>>
    /\ LoopRunning
    /\ LET t == Head(tasks)
       IN  /\ cmdLog' = IF linkUp /\ t \in {"up", "down", "stop"}
                        THEN Append(cmdLog, TaskCommand(t))
                        ELSE cmdLog
           /\ stopResult' = StopOutcome(t)
           /\ refLog' = IF linkUp /\ t = "stop_ref"
                        THEN Append(refLog, COMMAND_REFERENCE_INPUT_STOP)
                        ELSE refLog
           /\ tasks' = IF linkUp /\ t = "stop" /\ IS_LINUX
                       THEN Append(Tail(tasks), "stop_ref")
                       ELSE Tail(tasks)
    /\ UNCHANGED <<inVars, config, resVars, connVars, stopVars, subVars,
                   mvVars, notifVars, envVars, pc, exitCode, handlers, wPc,
                   disconnectCalls, bleUsed>>

(***************************************************************************)
(* The notification callbacks.                                             *)
(***************************************************************************)
\* a callback that derives the direction from the notified height
DecisionTowardTarget(height, cnt) ==
    IF has_reached_target(height, target) THEN "stop"
    ELSE IF height < target /\ cnt = RESEND_COUNT THEN "up"
    ELSE IF height > target /\ cnt = RESEND_COUNT THEN "down"
    ELSE "none"

\* a callback that resends the command of the opposite direction
DecisionAgainstDirection(height, cnt) ==
    IF has_reached_target(height, target) THEN "stop"
    ELSE IF direction = "UP" /\ cnt = RESEND_COUNT THEN "down"
    ELSE IF direction = "DOWN" /\ cnt = RESEND_COUNT THEN "up"
    ELSE "none"

\* what _move_to does with a notified height once count is incremented to
\* cnt (lines 202-218): spawn stop and ask to stop, resend, or nothing
Decision(height, cnt) ==
    IF has_reached_target(height, target) THEN "stop"
    ELSE IF direction = "UP" /\ cnt = RESEND_COUNT THEN "up"
    ELSE IF direction = "DOWN" /\ cnt = RESEND_COUNT THEN "down"
    ELSE "none"

\* _move_to(sender, data), lines 191-218
MoveCallback(height) ==
    LET cnt == count + 1
        d == Decision(height, cnt)
    IN  /\ count' = IF d \in {"up", "down"} THEN 0 ELSE cnt
        /\ tasks' = IF d = "none" THEN tasks ELSE Append(tasks, d)
        /\ IF d = "stop" THEN ask_to_stop("reached") ELSE UNCHANGED stopVars
        /\ nOut' = IF has_reached_target(height, target) THEN nOut
                   ELSE IF d \in {"up", "down"} THEN 0 ELSE nOut + 1
        /\ nIn' = IF has_reached_target(height, target) THEN nIn + 1
                  ELSE nIn
        /\ decided' = IF d = "none" THEN decided
                      ELSE Append(decided, TaskCommand(d))

\* print_height_data(sender, data), lines 136-138
MonitorCallback(height) ==
    UNCHANGED <<count, tasks, stopVars, nOut, nIn, decided>>

\* the desk notifies a height while the subscription is active
Notify ==
    /\ subscribed
    /\ linkUp
    /\ LoopRunning
    /\ FirstStepDone
    /\ SpawnedTasksStarted
    /\ notifCount < MaxNotif
    /\ \E h \in Heights(IF target = NoTarget THEN config.sit_height_raw
                         ELSE target, config.height_tolerance_raw) :
          /\ lastHeight' = h
          /\ IF config.monitor THEN MonitorCallback(h) ELSE MoveCallback(h)
    /\ notifCount' = notifCount + 1
    /\ UNCHANGED <<inVars, config, resVars, connVars, subVars, mvVars,
                   logVars, envVars, pc, exitCode, handlers, wPc,
                   disconnectCalls, bleUsed>>

(***************************************************************************)
(* move_to, lines 228-232: the gather under wait_for.                      *)
(***************************************************************************)
\* both children finished: move_to returns
GatherDone ==
    /\ pc = "mv_wait"
    /\ subPc = "done"
    /\ wPc = "done"
    /\ pc' = "after_move"
    /\ mvResult' = "returned"
    /\ UNCHANGED <<inVars, config, resVars, connVars, stopVars, subVars,
                   target, initial_height, direction, logVars, notifVars,
                   envVars, exitCode, handlers, wPc, tasks, disconnectCalls,
                   bleUsed>>

\* a child raised: the gather raises at once, the other child keeps
\* running; run() catches the error (lines 337-340)
GatherFail ==
    /\ pc = "mv_wait"
    /\ subPc = "failed" \/ wPc = "failed"
    /\ pc' = "run_end"
    /\ mvResult' = "raised"
    /\ UNCHANGED <<inVars, config, resVars, connVars, stopVars, subVars,
                   target, initial_height, direction, logVars, notifVars,
                   envVars, exitCode, handlers, wPc, tasks, disconnectCalls,
                   bleUsed>>

\* wait_for without a timeout
TimerNeverArmed == FALSE

\* wait_for arms the movement timeout while the gather is pending
TimerArmed == pc = "mv_wait" /\ subPc = "loop" /\ wPc = "done"

\* a timeout that also spawns stop(client)
TimeoutStopsDesk ==
    /\ TimerArmed
    /\ subPc' = "cancelled"
    /\ pc' = "mv_timeout"
    /\ mvResult' = "timing_out"
    /\ tasks' = Append(tasks, "stop")
    /\ UNCHANGED <<inVars, config, resVars, connVars, stopVars, subscribed,
                   startNotifyCalls, stopNotifyCalls, target, initial_height,
                   direction, logVars, notifVars, envVars, exitCode, handlers,
                   wPc, disconnectCalls, bleUsed>>

\* the movement timeout fires: wait_for cancels the gather and its children
Timeout ==
    /\ TimerArmed
    /\ subPc' = "cancelled"
    /\ pc' = "mv_timeout"
    /\ mvResult' = "timing_out"
    /\ UNCHANGED <<inVars, config, resVars, connVars, stopVars, subscribed,
                   startNotifyCalls, stopNotifyCalls, target, initial_height,
                   direction, logVars,
                   notifVars, envVars, exitCode, handlers, wPc, tasks,
                   disconnectCalls, bleUsed>>

\* the timeout handler without its stop_notify
TimeoutHandlerNoUnsubscribe ==
    /\ pc = "mv_timeout"
    /\ pc' = "after_move"
    /\ mvResult' = "timeout"
    /\ UNCHANGED <<inVars, config, resVars, connVars, stopVars, subVars,
                   target, initial_height, direction, logVars, notifVars,
                   envVars, exitCode, handlers, wPc, tasks, disconnectCalls,
                   bleUsed>>

\* except asyncio.TimeoutError: print, await client.stop_notify(UUID_HEIGHT)
TimeoutHandler ==
    /\ pc = "mv_timeout"
    /\ stopNotifyCalls' = stopNotifyCalls + 1
    /\ IF linkUp
       THEN /\ subscribed' = FALSE
            /\ pc' = "after_move"
            /\ mvResult' = "timeout"
       ELSE /\ subscribed' = subscribed
            /\ pc' = "run_end"
            /\ mvResult' = "timeout_raised"
    /\ UNCHANGED <<inVars, config, resVars, connVars, stopVars, subPc,
                   startNotifyCalls, target, initial_height, direction,
                   logVars, notifVars, envVars, exitCode, handlers, wPc,
                   tasks, disconnectCalls, bleUsed>>

(***************************************************************************)
(* run(), lines 317-340: the end of the operation.                         *)
(***************************************************************************)
\* monitor mode: the awaited subscribe returns or raises
MonitorEnd ==
    /\ pc = "monitor"
    /\ subPc \in {"done", "failed"}
    /\ pc' = "run_end"
    /\ UNCHANGED <<inVars, config, resVars, connVars, stopVars, subVars,
                   mvVars, logVars, notifVars, envVars, exitCode, handlers,
                   wPc, tasks, disconnectCalls, bleUsed>>

\* if target: await asyncio.sleep(1)
AfterMove ==
    /\ pc = "after_move"
    /\ pc' = IF target # NoTarget /\ target # 0 THEN "final_read"
             ELSE "run_end"
    /\ UNCHANGED <<inVars, config, resVars, connVars, stopVars, subVars,
                   mvVars, logVars, notifVars, envVars, exitCode, handlers,
                   wPc, tasks, disconnectCalls, bleUsed>>

\* the final read (line 335) returns, or raises into the except of run()
FinalRead ==
    /\ pc = "final_read"
    /\ pc' = "run_end"
    /\ UNCHANGED <<inVars, config, resVars, connVars, stopVars, subVars,
                   mvVars, logVars, notifVars, envVars, exitCode, handlers,
                   wPc, tasks, disconnectCalls, bleUsed>>

(***************************************************************************)
(* main(), lines 354-362: disconnect and close the loop.                   *)
(***************************************************************************)
\* main() without its disconnect block
MainCleanupNoDisconnect ==
    /\ pc = "run_end"
    /\ pc' = "exit"
    /\ exitCode' = 0
    /\ UNCHANGED <<inVars, config, resVars, connVars, stopVars, subVars,
                   mvVars, logVars, notifVars, envVars, handlers, wPc, tasks,
                   disconnectCalls, bleUsed>>

\* if client: ask_to_stop(), then run client.disconnect() on the loop
MainCleanup ==
    /\ pc = "run_end"
    /\ IF client
       THEN /\ ask_to_stop("main")
            /\ pc' = "disconnecting"
            /\ exitCode' = exitCode
       ELSE /\ UNCHANGED stopVars
            /\ pc' = "exit"
            /\ exitCode' = 0
    /\ UNCHANGED <<inVars, config, resVars, connVars, subVars, mvVars,
                   logVars, notifVars, envVars, handlers, wPc, tasks,
                   disconnectCalls, bleUsed>>

\* client.disconnect() completes; loop.stop(), loop.close()
ClientDisconnect ==
    /\ pc = "disconnecting"
    /\ disconnectCalls' = disconnectCalls + 1
    /\ linkUp' = FALSE
    /\ pc' = "exit"
    /\ exitCode' = 0
    /\ UNCHANGED <<inVars, config, resVars, client, cbSet, stopVars, subVars,
                   mvVars, logVars, notifVars, envVars, handlers, wPc, tasks,
                   bleUsed>>

(***************************************************************************)
(* The environment: signals and the transport.                             *)
(***************************************************************************)
\* the subscription loop of a move or of monitor mode is polling
LoopActive == pc \in {"mv_wait", "monitor"} /\ subPc = "loop"

\* SIGINT/SIGTERM where main() installed ask_to_stop as the handler
Signal ==
    /\ handlers
    /\ LoopRunning
    /\ FirstStepDone
    /\ ~stop_flag
    /\ ask_to_stop("signal")
    /\ sigInLoop' = (sigInLoop \/ LoopActive)
    /\ UNCHANGED <<inVars, config, resVars, connVars, subVars, mvVars,
                   logVars, notifVars, dropInMove, pc, exitCode, handlers,
                   wPc, tasks, disconnectCalls, bleUsed>>

\* SIGINT where no handler is installed: KeyboardInterrupt leaves
\* run_until_complete and main()
KeyboardInterrupt ==
    /\ ~handlers
    /\ LoopRunning
    /\ pc' = "killed"
    /\ exitCode' = 1
    /\ UNCHANGED <<inVars, config, resVars, connVars, stopVars, subVars,
                   mvVars, logVars, notifVars, envVars, handlers, wPc, tasks,
                   disconnectCalls, bleUsed>>

\* a disconnect callback that only prints
disconnect_callback_silent == UNCHANGED stopVars

\* disconnect_callback(client), lines 306-309
disconnect_callback == ask_to_stop("disconnect")

\* the transport drops the connection and calls the disconnect callback
LinkDrop ==
    /\ client
    /\ linkUp
    /\ LoopRunning
    /\ linkUp' = FALSE
    /\ IF cbSet THEN disconnect_callback ELSE UNCHANGED stopVars
    /\ dropInMove' = (dropInMove \/ (cbSet /\ TimerArmed))
    /\ UNCHANGED <<inVars, config, resVars, client, cbSet, subVars, mvVars,
                   logVars, notifVars, sigInLoop, pc, exitCode, handlers, wPc,
                   tasks, disconnectCalls, bleUsed>>

(***************************************************************************)
(* Specifications.                                                         *)
(***************************************************************************)
MainStep ==
    \/ LoadConfig \/ MainStart \/ ScanAdapter \/ Unpickle \/ Scan
    \/ ConnectOk \/ ConnectOkPickleFail \/ ConnectFail \/ Read0
    \/ MoveRead \/ GatherDone \/ GatherFail \/ TimeoutHandler
    \/ MonitorEnd \/ AfterMove \/ FinalRead \/ MainCleanup
    \/ ClientDisconnect

SubStep == SubStart \/ SubPoll

TaskStep == InitialWrite \/ RunTask

EnvStep == Notify \/ Signal \/ KeyboardInterrupt \/ LinkDrop

Next == MainStep \/ SubStep \/ TaskStep \/ EnvStep \/ Timeout

Spec == Init /\ [][Next]_vars

\* the event loop runs every ready task: the main coroutine, the subscribe
\* task and the write tasks each take their next step
Fairness == WF_vars(MainStep) /\ WF_vars(SubStep) /\ WF_vars(TaskStep)

\* fair scheduling; the movement timeout need not fire
SpecLive == Spec /\ Fairness

\* fair scheduling, and an armed movement timeout fires
SpecTimed == Spec /\ Fairness /\ WF_vars(Timeout)

(***************************************************************************)
(* Properties.                                                             *)
(***************************************************************************)
\* the process has ended
Ended == pc \in {"exit", "killed"}

\* move_to is executing
MoveRunning == pc \in {"mv_read", "mv_wait", "mv_timeout"}

\* move_to has read the initial height
MoveCalled == initial_height # NoHeight

\* the height is within the tolerance band of the target
InBand(h) == Abs(h - target) <= config.height_tolerance_raw

\* C1: a move whose initial height is within tolerance of the target writes
\* no command and starts no subscription; any other move writes, as its
\* first command, Up when the target is above the initial height and Down
\* when it is below.
C1_FirstCommand ==
    MoveCalled =>
        /\ InBand(initial_height) =>
              /\ cmdLog = <<>> /\ refLog = <<>> /\ tasks = <<>>
              /\ startNotifyCalls = 0 /\ ~subscribed
              /\ subPc = "none" /\ wPc = "none"
        /\ (~InBand(initial_height) /\ cmdLog # <<>>) =>
              /\ target > initial_height => cmdLog[1] = COMMAND_UP
              /\ target < initial_height => cmdLog[1] = COMMAND_DOWN

C1_Witness ==
    /\ MoveCalled
    /\ target < initial_height
    /\ Len(cmdLog) >= 2
    /\ cmdLog[1] = COMMAND_DOWN

\* this step is the callback of a move handling a height out of the band
OutOfBandNotify ==
    /\ notifCount' = notifCount + 1
    /\ ~config.monitor
    /\ ~InBand(lastHeight')

\* this step spawns one more write task
Spawned == Len(tasks') = Len(tasks) + 1

\* C2: in a move the callback re-issues the directional command on every
\* 6th notification out of the tolerance band, counted from the start of
\* the move or from the previous re-issue, and on no other one, and the
\* resend counter is 0 right after each re-issue.
C2_ResendEverySixth ==
    [][OutOfBandNotify =>
          /\ Spawned <=> (nOut + 1 = RESEND_COUNT)
          /\ Spawned =>
                /\ count' = 0
                /\ tasks'[Len(tasks')] =
                      (IF target > initial_height THEN "up" ELSE "down")]_vars

\* C3 as stated: a move on which the timeout fires before any notification
\* within tolerance returns normally, with the subscription stopped.
C3_TimeoutReturnsNormally ==
    (mvResult \in {"timeout", "timeout_raised"} /\ nIn = 0) =>
        /\ mvResult = "timeout"
        /\ ~subscribed
        /\ stopNotifyCalls >= 1

\* C3 amended: when the timeout fires, stop_notify is invoked; move_to then
\* returns normally with no active subscription, unless the transport has
\* dropped, in which case the error of stop_notify reaches run().
C3_TimeoutUnsubscribes ==
    /\ mvResult = "timing_out" => pc \in {"mv_timeout", "killed"}
    /\ mvResult = "timeout" =>
          /\ ~subscribed
          /\ stopNotifyCalls >= 1
          /\ ~MoveRunning
    /\ mvResult = "timeout_raised" =>
          /\ ~linkUp
          /\ stopNotifyCalls >= 1
          /\ ~MoveRunning

C3_Witness ==
    /\ mvResult = "timeout"
    /\ nIn = 0
    /\ notifCount = MaxNotif
    /\ pc = "exit"

\* C4: when the disconnect callback fires while a move is driving, the
\* stop flag is set and move_to ends, whether or not the movement timeout
\* ever fires.
C4_DisconnectEndsMove ==
    /\ [](dropInMove => stop_flag)
    /\ dropInMove ~> ~MoveRunning

C4_Witness ==
    /\ dropInMove
    /\ mvResult = "raised"
    /\ pc = "run_end"

\* C5: every call of move_to ends, whatever the notifications, once the
\* movement timeout fires when armed and the tasks are run fairly.
C5_MoveTerminates == MoveRunning ~> ~MoveRunning

C5_Witness ==
    /\ mvResult = "timeout"
    /\ ~stop_flag
    /\ notifCount = 0
    /\ pc = "after_move"

C7_TargetInRange ==
    target # NoTarget =>
        /\ target >= mmToRaw(BASE_HEIGHT)
        /\ target <= mmToRaw(MAX_HEIGHT)

\* C8: when a signal sets the stop flag while a subscription loop is
\* polling, the subscription is stopped, the operation ends and main()
\* disconnects the client.
C8_SignalShutsDown ==
    sigInLoop ~> (pc = "exit" /\ stopNotifyCalls >= 1 /\ disconnectCalls = 1)

C8_Witness ==
    /\ sigInLoop
    /\ config.monitor
    /\ ~subscribed
    /\ pc = "exit"
    /\ disconnectCalls = 1

\* the effective configuration breaks one of the four rules
Invalid(c) ==
    \/ c.mac_address = NoMac
    \/ c.sit_height >= c.stand_height
    \/ c.sit_height < 620
    \/ c.stand_height > 1270

\* C9: with an invalid effective configuration the program ends with a
\* nonzero exit code before any BLE activity.
C9_InvalidConfigFailsFast ==
    (pc # "load" /\ Invalid(config)) =>
        /\ pc = "exit"
        /\ exitCode > 0
        /\ ~bleUsed /\ ~client /\ ~linkUp
        /\ startNotifyCalls = 0 /\ stopNotifyCalls = 0
        /\ cmdLog = <<>> /\ refLog = <<>>
        /\ disconnectCalls = 0

C9_Witness ==
    /\ pc = "exit"
    /\ config.mac_address # NoMac
    /\ config.sit_height < config.stand_height
    /\ config.stand_height > 1270

\* the settings of the configuration surface
Settings ==
    {"mac_address", "stand_height", "sit_height", "height_tolerance",
     "adapter_name", "scan_timeout", "connection_timeout",
     "movement_timeout"}

\* C10: the effective value of every setting is the command-line value
\* when given, else the config-file value when given, else the default.
C10_Layering ==
    pc # "load" =>
        \A k \in Settings :
            config[k] = IF k \in DOMAIN cli THEN cli[k]
                        ELSE IF k \in DOMAIN file THEN file[k]
                        ELSE DefaultConfig[k]

\* the height lies in [target - tolerance, target + tolerance], raw units
WithinTolerance(h) ==
    /\ h >= target - config.height_tolerance_raw
    /\ h <= target + config.height_tolerance_raw

\* this step is the callback of a move handling a notified height
MoveNotify == notifCount' = notifCount + 1 /\ ~config.monitor

\* this step spawns stop(client)
StopSpawned ==
    /\ Len(tasks') = Len(tasks) + 1
    /\ tasks'[Len(tasks')] = "stop"

\* C11: has_reached_target(height, target) is true exactly when the height
\* is at most the tolerance away from the target, the boundary included, and
\* false one raw unit beyond it on either side: move_to skips the move
\* exactly for such an initial height, and the callback spawns the stop and
\* sets the stop flag exactly for such a notified height.
C11_ReachedIffWithinTolerance ==
    /\ [](MoveCalled =>
             ((mvResult = "noop") <=> WithinTolerance(initial_height)))
    /\ [][MoveNotify =>
             /\ StopSpawned <=> WithinTolerance(lastHeight')
             /\ WithinTolerance(lastHeight') => stop_flag']_vars

C11_Witness ==
    /\ MoveCalled
    /\ initial_height = target - config.height_tolerance_raw - 1
    /\ lastHeight = target + config.height_tolerance_raw
    /\ notifCount = 1
    /\ cmdLog = <<COMMAND_UP, COMMAND_STOP>>

\* the number of entries of a log equal to a command code
Occurrences(log, code) == Cardinality({i \in 1..Len(log) : log[i] = code})

\* C12 as stated: stop writes Stop to the Command characteristic and then,
\* on Linux only, the Reference-Input Stop to the Reference Input
\* characteristic, and a failure of that second write does not make the
\* stop raise.
C12_StopBestEffort ==
    /\ Occurrences(refLog, COMMAND_REFERENCE_INPUT_STOP) = Len(refLog)
    /\ Len(refLog) <= Occurrences(cmdLog, COMMAND_STOP)
    /\ IS_WINDOWS => refLog = <<>>
    /\ stopResult # "raised_reference"

\* C13: once the callback of a move has handled a height within tolerance
\* and spawned the stop, no Up or Down is issued for that move: none is
\* spawned by a later notification and none is written after the Stop.
C13_ConvergenceTerminal ==
    /\ [][(MoveNotify /\ nIn >= 1) =>
             (Spawned => tasks'[Len(tasks')] = "stop")]_vars
    /\ [](\A i \in 1..Len(cmdLog) : \A j \in 1..Len(cmdLog) :
             (i < j /\ cmdLog[i] = COMMAND_STOP) => cmdLog[j] = COMMAND_STOP)

FixedCommand == IF target > initial_height THEN COMMAND_UP ELSE COMMAND_DOWN

\* C15: the direction of a move is fixed at its start, Up if the target is
\* above the initial height and Down otherwise, and never changes: every
\* directional command written during the move, the first one and every
\* re-issue, is that same command.
C15_DirectionFixed ==
    /\ [](MoveCalled =>
             /\ direction = (IF target > initial_height THEN "UP" ELSE "DOWN")
             /\ \A i \in 1..Len(cmdLog) :
                   cmdLog[i] \in {COMMAND_UP, COMMAND_DOWN} =>
                       cmdLog[i] = FixedCommand)
    /\ [][MoveCalled => direction' = direction]_vars

C15_Witness ==
    /\ MoveCalled
    /\ target < initial_height
    /\ cmdLog = <<COMMAND_DOWN, COMMAND_DOWN>>

Resolving == pc = "run" /\ pc' \in {"connect", "scan"}

\* desk.pickle can be read and holds the device of the configured address
CacheUsable == ~IS_WINDOWS /\ cache = config.mac_address

\* C17: the device handed to connect always has the configured mac address.
\* The cached device is used exactly when it can be read and its address
\* matches; otherwise the run goes on to a scan, without failing, and uses
\* only a scanned device of that address; when the scan finds none, no
\* connection is attempted and the run ends with exit code 1.
C17_DeviceMatchesMac ==
    /\ []((pc = "connect" \/ client) => desk = config.mac_address)
    /\ []((pc = "connect" /\ ~bleUsed) => CacheUsable)
    /\ []((pc = "exit" /\ exitCode = 1 /\ desk = "none") =>
             (bleUsed /\ ~client /\ ~linkUp))
    /\ [][Resolving =>
             /\ exitCode' = exitCode
             /\ IF CacheUsable THEN pc' = "connect" /\ desk' = cache
                ELSE pc' = "scan" /\ desk' = "none"]_vars
    /\ [][(pc = "scan" /\ pc' \notin {"scan", "killed"}) =>
             IF desk' = "none" THEN pc' = "exit" /\ exitCode' = 1 /\ ~client'
             ELSE pc' = "connect" /\ desk' = config.mac_address]_vars

C17_Witness ==
    /\ pc = "connect"
    /\ cache = "ZZ"
    /\ bleUsed
    /\ desk = config.mac_address

\* this step re-issues the directional command d ("up" or "down")
Reissued(d) == MoveNotify /\ Spawned /\ tasks'[Len(tasks')] = d

\* C18 as stated: every re-issued directional command points toward the
\* target relative to the reading that triggered it: Up is re-issued only
\* for a notified height below the target, Down only for one above it.
C18_ReissueTowardTarget ==
    [][/\ Reissued("up") => lastHeight' < target
       /\ Reissued("down") => lastHeight' > target]_vars

\* C18 amended: every re-issued directional command is the command of the
\* direction fixed at the start of the move, Up when the target is above the
\* initial height and Down when it is below, and it is re-issued on the
\* reading that brings the resend counter to 6 on whichever side of the
\* tolerance band that reading lies: after an overshoot past the band the
\* re-issue points away from the target.
C18_ReissueFollowsInitialDirection ==
    [][/\ Reissued("up") => target > initial_height
       /\ Reissued("down") => target < initial_height
       /\ (MoveNotify /\ count + 1 = RESEND_COUNT
             /\ ~WithinTolerance(lastHeight')) =>
             (Reissued("up") \/ Reissued("down"))]_vars

C18_Witness ==
    /\ MoveCalled
    /\ initial_height < target
    /\ lastHeight > target
    /\ nIn = 0
    /\ cmdLog = <<COMMAND_UP, COMMAND_UP>>

\* the stop flag was first set by a signal or by the disconnect callback
StoppedFromOutside == stop_flag /\ stopBy \in {"signal", "disconnect"}

\* this step writes Up or Down to the Command characteristic
DirectionalWrite ==
    /\ Len(cmdLog') = Len(cmdLog) + 1
    /\ cmdLog'[Len(cmdLog')] \in {COMMAND_UP, COMMAND_DOWN}

\* C19: once the stop flag has been set by a signal or by the disconnect
\* callback, no Up or Down is written to the Command characteristic for the
\* rest of the run, whether the flag was set before move_to started or
\* while it was driving.
C19_NoDriveAfterStopRequest ==
    [][StoppedFromOutside => ~DirectionalWrite]_vars

\* C20: in monitor mode nothing is written to the Command or Reference
\* Input characteristic and no write is ever pending, whatever the
\* notifications; the movement timeout never cancels the subscription, and
\* the subscribe loop ends only with the stop flag set by a signal or by
\* the disconnect callback.
C20_MonitorOnlyListens ==
    config.monitor =>
        /\ cmdLog = <<>> /\ refLog = <<>>
        /\ tasks = <<>> /\ wPc = "none" /\ decided = <<>>
        /\ mvResult = "none" /\ subPc # "cancelled"
        /\ (subPc \in {"done", "failed"} \/ stopNotifyCalls >= 1) =>
              StoppedFromOutside

C20_Witness ==
    /\ config.monitor
    /\ notifCount = MaxNotif
    /\ stopBy = "signal"
    /\ subPc = "done"
    /\ ~subscribed
    /\ pc = "exit"

====
